---- MODULE Spec2Model ----
(***************************************************************************)
(* TEStribute: request validation (models.py) and the DRS / TES metadata   *)
(* clients (utils/service_calls.py), modelled as state machines.           *)
(*                                                                         *)
(* Python values are tagged records: the field `type` names the Python     *)
(* type, the payload lives in a field whose name depends on the type.      *)
(* Floats are fixed-point: val counts units of 1/FloatScale, so 1.0 is     *)
(* FloatScale; nan marks the IEEE not-a-number, whose comparisons are all  *)
(* false.  Python dicts are insertion-ordered: a dict is a sequence of     *)
(* <<key, value>> pairs with pairwise distinct keys.                       *)
(***************************************************************************)
EXTENDS Integers, Sequences, FiniteSets, TLC

VARIABLES
    mode_arg,        \* sanitize_mode: the argument of the call
    mode_ret,        \* sanitize_mode: what the call returned (Pending before)
    request,         \* validate: the Request instance (self)
    request_in,      \* validate: the instance as it was when validate was called
    defaults,        \* validate: the `defaults` argument
    v_pc,            \* validate: "called" | "done"
    v_outcome,       \* validate: how the call ended
    tes_pc,          \* fetch_tes_task_info: "idle" | "loop" | "done"
    tes_uris,        \* fetch_tes_task_info: argument
    tes_check,       \* fetch_tes_task_info: argument check_results
    tes_env,         \* behaviour of every TES endpoint during the call
    tes_i,           \* index of the next entry of tes_uris
    tes_result,      \* result_dict of fetch_tes_task_info
    tes_outcome,     \* how fetch_tes_task_info ended
    tes_log,         \* the requests fetch_tes_task_info has sent, in order
    drs_pc,          \* fetch_drs_objects_metadata: "idle" | "loop" | "done"
    drs_uris,        \* fetch_drs_objects_metadata: argument
    drs_ids,         \* fetch_drs_objects_metadata: argument
    drs_check,       \* fetch_drs_objects_metadata: argument check_results
    drs_env,         \* behaviour of every DRS endpoint during the call
    drs_i,           \* index of the next entry of drs_uris
    drs_result,      \* result_dict of fetch_drs_objects_metadata
    drs_outcome,     \* how fetch_drs_objects_metadata ended
    drs_first,       \* how the preceding call with the same arguments ended
    drs_log,         \* the requests fetch_drs_objects_metadata has sent, in order
    ctor_pc,         \* a constructor call: "idle" | "called" | "built"
    ctor_call,       \* the class constructed and the arguments supplied
    ctor_obj         \* the instance the constructor built

modeVars == <<mode_arg, mode_ret>>
valVars  == <<request, request_in, defaults, v_pc, v_outcome>>
tesVars  == <<tes_pc, tes_uris, tes_check, tes_env, tes_i, tes_result, tes_outcome,
              tes_log>>
drsVars  == <<drs_pc, drs_uris, drs_ids, drs_check, drs_env, drs_i, drs_result,
              drs_outcome, drs_first, drs_log>>
ctorVars == <<ctor_pc, ctor_call, ctor_obj>>
vars     == <<modeVars, valVars, tesVars, drsVars, ctorVars>>

----------------------------------------------------------------------------
(* Bounds of the model *)

FloatScale  == 10   \* floats are multiples of 1/FloatScale
FloatMargin == 5    \* floats range over -FloatMargin/FloatScale .. 1 + FloatMargin/FloatScale
MaxInt      == 6    \* int arguments range over -MaxInt .. MaxInt
MaxTesUris  == 3    \* longest tes_uris list
MaxDrsUris  == 2    \* longest drs_uris list
MaxDrsIds   == 2    \* longest drs_ids list

----------------------------------------------------------------------------
(* Python values *)

None        == [type |-> "NoneType"]
Pending     == [type |-> "pending"]          \* no value yet: the call has not returned
PyInt(n)    == [type |-> "int", val |-> n]
PyBool(b)   == [type |-> "bool", b |-> b]
PyStr(s)    == [type |-> "str", s |-> s]
PyFloat(n)  == [type |-> "float", nan |-> FALSE, val |-> n]
NaN         == [type |-> "float", nan |-> TRUE, val |-> 0]
PyList(q)   == [type |-> "list", items |-> q]
PyDict      == [type |-> "dict"]
ModeMember(name) == [type |-> "Mode", name |-> name]

\* x < y and x > y on a float and an int literal: false whenever x is NaN
FloatLess(x, k)    == ~x.nan /\ x.val < k * FloatScale
FloatGreater(x, k) == ~x.nan /\ x.val > k * FloatScale

\* float(n) for an int n
float(n) == PyFloat(n * FloatScale)

\* class Mode(enum.Enum): member name -> value
Mode == [random |-> -1, cost |-> 0, time |-> 1]

ModeNames == DOMAIN Mode

\* isinstance(mode, int): bool is a subclass of int
IsInstanceInt(mode) == mode.type \in {"int", "bool"}

\* the integer an int instance compares equal to (True == 1, False == 0)
IntOf(mode) == IF mode.type = "bool" THEN (IF mode.b THEN 1 ELSE 0) ELSE mode.val

\* Mode(value) succeeds iff some member has that value
ModeHasValue(n) == \E name \in ModeNames : Mode[name] = n

ModeByValue(n) == CHOOSE name \in ModeNames : Mode[name] = n

\* sanitize_mode with the interval test written `mode <= 0 or mode >= 1`
sanitize_mode_open_interval(mode) ==
    IF mode.type = "Mode" THEN float(Mode[mode.name])
    ELSE IF mode.type = "str" THEN
        IF mode.s \in ModeNames THEN float(Mode[mode.s]) ELSE None
    ELSE IF IsInstanceInt(mode) THEN
        IF ModeHasValue(IntOf(mode)) THEN float(Mode[ModeByValue(IntOf(mode))]) ELSE None
    ELSE IF mode.type = "float" THEN
        IF (~mode.nan /\ mode.val <= 0) \/ (~mode.nan /\ mode.val >= FloatScale)
        THEN None ELSE mode
    ELSE None

\* Request.sanitize_mode(mode): the function body, applied to its parameter
sanitize_mode(mode) ==
    IF mode.type = "Mode" THEN float(Mode[mode.name])
    ELSE IF mode.type = "str" THEN
        IF mode.s \in ModeNames THEN float(Mode[mode.s]) ELSE None
    ELSE IF IsInstanceInt(mode) THEN
        IF ModeHasValue(IntOf(mode)) THEN float(Mode[ModeByValue(IntOf(mode))]) ELSE None
    ELSE IF mode.type = "float" THEN
        IF FloatLess(mode, 0) \/ FloatGreater(mode, 1) THEN None ELSE mode
    ELSE None

----------------------------------------------------------------------------
(* sanitize_mode as a function of its argument *)

ModeStrings == {"cost", "time", "random", "bogus", "", "Cost", "TIME", "0", "1.0"}

ModeArgs ==
    {ModeMember(n) : n \in ModeNames}
    \cup {PyStr(s) : s \in ModeStrings}
    \cup {PyInt(n) : n \in -MaxInt .. MaxInt}
    \cup {PyBool(b) : b \in BOOLEAN}
    \cup {PyFloat(n) : n \in -FloatMargin .. FloatScale + FloatMargin}
    \cup {NaN, None, PyList(<<>>), PyList(<<"cost">>), PyDict, [type |-> "Request"]}

ModeInit ==
    /\ mode_arg \in ModeArgs
    /\ mode_ret = Pending

CallSanitizeMode ==
    /\ mode_ret = Pending
    /\ mode_ret' = sanitize_mode(mode_arg)
    /\ UNCHANGED <<mode_arg, valVars, tesVars, drsVars, ctorVars>>

----------------------------------------------------------------------------
(* Request.validate *)

\* bool(x): None and empty containers are false; an instance of a class that
\* defines neither __bool__ nor __len__ (DrsIds, DrsUris, TesUris) is true
Truthy(x) ==
    IF x.type = "NoneType" THEN FALSE
    ELSE IF x.type = "list" THEN Len(x.items) > 0
    ELSE TRUE

\* DrsIds(items) / DrsUris(items) / TesUris(items): a record holding items
DrsIds(items)  == [type |-> "DrsIds", items |-> items]
DrsUris(items) == [type |-> "DrsUris", items |-> items]
TesUris(items) == [type |-> "TesUris", items |-> items]

FieldNames == {"resource_requirements", "tes_uris", "drs_ids", "drs_uris", "mode"}

\* Request(...): the instance, its five attributes as passed
Request(resource_requirements, tes, ids, uris, mode) ==
    [type |-> "Request",
     resource_requirements |-> resource_requirements,
     tes_uris |-> tes,
     drs_ids |-> ids,
     drs_uris |-> uris,
     mode |-> mode]

\* errors.throw(kind, message): logs the message, then raises kind(message)
throw(kind, message) == [exc |-> kind, message |-> message]

Returned == [exc |-> "none", message |-> ""]

\* the dictionary set_defaults builds in its loop
return_dict(dflt, kwargs) ==
    [name \in DOMAIN kwargs |->
        IF kwargs[name] # None THEN kwargs[name]
        ELSE IF name \notin DOMAIN dflt.map THEN kwargs[name]
        ELSE dflt.map[name]]

\* set_defaults storing every default of the mapping on the instance, over
\* whatever the field holds
set_defaults_overwrite(self, dflt, kwargs) ==
    [name \in DOMAIN self |->
        IF name \in DOMAIN dflt.map THEN dflt.map[name] ELSE self[name]]

\* Request.set_defaults(self, defaults, **kwargs): the instance after the call.
\* return_dict is a local that is neither returned nor stored on self.
set_defaults(self, dflt, kwargs) ==
    LET built == return_dict(dflt, kwargs)
    IN  self

\* the keyword arguments validate passes to set_defaults
validate_kwargs(self) == [name \in FieldNames |-> self[name]]

\* Request.validate(self, defaults): the instance after the call and how the
\* call ended.  self.sanitize_mode() binds the instance to the parameter mode.
validate(self, dflt) ==
    LET self1 == IF dflt # None
                 THEN set_defaults(self, dflt, validate_kwargs(self))
                 ELSE self
        mode  == sanitize_mode(self1)
    IN  [self |-> self1,
         outcome |->
            IF mode = None
            THEN throw("ValidationError", "Parameter 'mode' is invalid.")
            ELSE IF Truthy(self1.drs_ids) /\ ~Truthy(self1.drs_uris)
            THEN throw("ValidationError",
                       "No services for accesing input objects defined.")
            ELSE IF ~Truthy(self1.tes_uris)
            THEN throw("ValidationError", "No TES instance has been specified.")
            ELSE Returned]

\* the requests and defaults the model draws from
TesUrisValues ==
    {None, PyList(<<>>), PyList(<<"tesA">>), TesUris(<<>>), TesUris(<<"tesA">>)}

DrsIdsValues ==
    {None, PyList(<<>>), PyList(<<"o1">>), DrsIds(<<>>), DrsIds(<<"o1">>)}

DrsUrisValues ==
    {None, PyList(<<>>), PyList(<<"drsA">>), DrsUris(<<>>), DrsUris(<<"drsA">>)}

ValidateModes ==
    {None, PyStr("cost"), PyStr("random"), PyStr("bogus"), PyInt(1), PyInt(2),
     ModeMember("time"), PyFloat(FloatScale), PyFloat(FloatScale + 1)}

Requests ==
    {Request(rr, tes, ids, uris, mode) :
        rr \in {None, PyDict},
        tes \in TesUrisValues,
        ids \in DrsIdsValues,
        uris \in DrsUrisValues,
        mode \in ValidateModes}

DefaultValue ==
    [resource_requirements |-> PyDict,
     tes_uris |-> PyList(<<"tesB">>),
     drs_ids  |-> PyList(<<"o2">>),
     drs_uris |-> PyList(<<"drsB">>),
     mode     |-> PyStr("time")]

DefaultKeySets == {{}, FieldNames} \cup {{n} : n \in FieldNames}

DefaultsArgs ==
    {None} \cup {[type |-> "dict", map |-> [n \in K |-> DefaultValue[n]]] :
                    K \in DefaultKeySets}

ValidateInit ==
    /\ request \in Requests
    /\ request_in = request
    /\ defaults \in DefaultsArgs
    /\ v_pc = "called"
    /\ v_outcome = Returned

Validate ==
    /\ v_pc = "called"
    /\ request' = validate(request, defaults).self
    /\ v_outcome' = validate(request, defaults).outcome
    /\ v_pc' = "done"
    /\ UNCHANGED <<request_in, defaults, modeVars, tesVars, drsVars, ctorVars>>

----------------------------------------------------------------------------
(* Python dicts: insertion-ordered sequences of <<key, value>> pairs *)

EmptyDict == <<>>

DictKeys(d) == {d[k][1] : k \in DOMAIN d}

DictHas(d, key) == key \in DictKeys(d)

DictGet(d, key) == d[CHOOSE k \in DOMAIN d : d[k][1] = key][2]

\* d[key] = value: an existing key keeps its position
DictSet(d, key, value) ==
    IF DictHas(d, key)
    THEN [k \in DOMAIN d |-> IF d[k][1] = key THEN <<key, value>> ELSE d[k]]
    ELSE Append(d, <<key, value>>)

\* bool(d) for a dict
DictTruthy(d) == Len(d) > 0

\* the lists of length at most n over S
ListsOver(S, n) == UNION {[1..k -> S] : k \in 0..n}

----------------------------------------------------------------------------
(* The records of the response: Checksum, ServiceCombination, Response *)

PyTuple(q) == [type |-> "tuple", items |-> q]

\* class ChecksumType(enum.Enum): member name -> value
ChecksumType == [md5 |-> 1, etag |-> 2, sha256 |-> 3, sha512 |-> 4]

ChecksumTypeMember(name) == [type |-> "ChecksumType", name |-> name]

AccessUris(tes_uri) == [type |-> "AccessUris", tes_uri |-> tes_uri]

Costs(amount, currency) ==
    [type |-> "Costs", amount |-> amount, currency |-> currency]

Duration(duration, unit) ==
    [type |-> "Duration", duration |-> duration, unit |-> unit]

\* an instance of a class: the class and the instance's __dict__
Instance(class, dict) == [type |-> class, dict |-> dict]

\* Checksum.__init__: `self.checksum = checksum,` and `self.type = type,` end
\* in a comma, so each attribute is given a one-element tuple
Checksum(checksum, type) ==
    Instance("Checksum",
             << <<"checksum", PyTuple(<<checksum>>)>>,
                <<"type", PyTuple(<<type>>)>> >>)

\* ServiceCombination.__init__: its four statements `self.x: x` are
\* annotations without a value, which assign nothing
ServiceCombination(access_uris, cost_estimate, rank, time_estimate) ==
    Instance("ServiceCombination", EmptyDict)

\* Response.__init__: `self.service_combinations: service_combinations` and
\* `self.warnings: warnings` are annotations without a value
Response(service_combinations, warnings) ==
    Instance("Response", EmptyDict)

\* a constructor call: the class and the keyword arguments supplied
CtorCall(class, args) == [class |-> class, args |-> args]

ChecksumCalls ==
    {CtorCall("Checksum",
              << <<"checksum", PyStr(c)>>, <<"type", ChecksumTypeMember(t)>> >>) :
        c \in {"", "9a0364b9", "d41d8cd9"}, t \in DOMAIN ChecksumType}

ServiceCombinationCalls ==
    {CtorCall("ServiceCombination",
              << <<"access_uris", a>>, <<"cost_estimate", c>>,
                 <<"rank", PyInt(r)>>, <<"time_estimate", t>> >>) :
        a \in {AccessUris("tesA"), AccessUris("tesB")},
        c \in {Costs(PyFloat(0), "EUR"), Costs(PyFloat(FloatScale), "EUR"),
               Costs(PyFloat(FloatScale), "USD")},
        r \in 1..3,
        t \in {Duration(PyInt(1), "HOURS"), Duration(PyInt(30), "MINUTES")}}

ResponseCalls ==
    {CtorCall("Response",
              << <<"service_combinations", PyList(c)>>, <<"warnings", PyList(w)>> >>) :
        c \in {<<>>,
               <<ServiceCombination(AccessUris("tesA"), Costs(PyFloat(0), "EUR"),
                                    PyInt(1), Duration(PyInt(1), "HOURS"))>>,
               <<ServiceCombination(AccessUris("tesA"), Costs(PyFloat(0), "EUR"),
                                    PyInt(1), Duration(PyInt(1), "HOURS")),
                 ServiceCombination(AccessUris("tesB"), Costs(PyFloat(0), "EUR"),
                                    PyInt(2), Duration(PyInt(1), "HOURS"))>>},
        w \in {<<>>, <<"w1">>, <<"w1", "w2">>}}

CtorCalls == ChecksumCalls \cup ServiceCombinationCalls \cup ResponseCalls

NoCall == CtorCall("none", EmptyDict)

NoInstance == Instance("NoneType", EmptyDict)

\* the constructor of call.class applied to the arguments of the call
construct(call) ==
    LET arg(name) == DictGet(call.args, name)
    IN  IF call.class = "Checksum"
        THEN Checksum(arg("checksum"), arg("type"))
        ELSE IF call.class = "ServiceCombination"
        THEN ServiceCombination(arg("access_uris"), arg("cost_estimate"),
                                arg("rank"), arg("time_estimate"))
        ELSE Response(arg("service_combinations"), arg("warnings"))

CtorIdle ==
    /\ ctor_pc = "idle"
    /\ ctor_call = NoCall
    /\ ctor_obj = NoInstance

CtorInit ==
    /\ ctor_pc = "called"
    /\ ctor_call \in CtorCalls
    /\ ctor_obj = NoInstance

\* the constructor runs
Construct ==
    /\ ctor_pc = "called"
    /\ ctor_obj' = construct(ctor_call)
    /\ ctor_pc' = "built"
    /\ UNCHANGED <<ctor_call, modeVars, valVars, tesVars, drsVars>>

----------------------------------------------------------------------------
(* The exceptions the client libraries raise, by class name *)

ExcKinds ==
    {"TimeoutError", "ConnectionError", "HTTPError", "HTTPNotFound",
     "JSONDecodeError", "MissingSchema"}

\* what a function call produced: a return value, or a raised exception
Return(value) == [exc |-> "none", value |-> value]
Raise(kind)   == [exc |-> kind, value |-> EmptyDict]
NotEnded      == [exc |-> "pending", value |-> EmptyDict]

----------------------------------------------------------------------------
(* fetch_tes_task_info *)

TesEndpoints == {"tesA", "tesB"}

\* an endpoint's behaviour: what tes_client.Client(uri) does and, once
\* connected, what client.getTaskInfo(...) does
TesBehaviours ==
    {[connect |-> k, request |-> "empty"] : k \in ExcKinds}
    \cup {[connect |-> "ok", request |-> r] : r \in {"record", "empty"} \cup ExcKinds}

\* the task-info record an endpoint reports, ._as_dict()
TaskInfoOf(uri) == << <<"queue_time", uri>> >>

\* _fetch_tes_task_info(uri, resource_requirements, timeout); the mapping
\* resource_requirements and timeout are forwarded to the endpoint unchanged
_fetch_tes_task_info(uri, env) ==
    LET b == env[uri]
    IN  IF b.connect = "TimeoutError" THEN Return(EmptyDict)
        ELSE IF b.connect \in {"ConnectionError", "JSONDecodeError",
                               "HTTPNotFound", "MissingSchema"}
        THEN Return(EmptyDict)
        ELSE IF b.connect # "ok" THEN Raise(b.connect)
        ELSE IF b.request = "TimeoutError" THEN Return(EmptyDict)
        ELSE IF b.request \in ExcKinds THEN Raise(b.request)
        ELSE IF b.request = "record" THEN Return(TaskInfoOf(uri))
        ELSE Return(EmptyDict)

\* a request sent to the endpoint of the entry-th list entry: op is the client
\* call (the constructor Client, getTaskInfo or getObject)
Contact(op, entry, object) == [op |-> op, entry |-> entry, object |-> object]

\* the requests _fetch_tes_task_info(uri, ...) sends for the entry-th list
\* entry: tes_client.Client(uri), then getTaskInfo unless Client raised
tes_contacts(uri, env, entry) ==
    <<Contact("Client", entry, "")>>
    \o (IF env[uri].connect = "ok"
        THEN <<Contact("getTaskInfo", entry, "")>> ELSE <<>>)

\* the loop body's update with the test `if task_info` left out
tes_add_always(result_dict, uri, task_info) == DictSet(result_dict, uri, task_info)

\* if task_info: result_dict[uri] = task_info
tes_add(result_dict, uri, task_info) ==
    IF DictTruthy(task_info) THEN DictSet(result_dict, uri, task_info)
    ELSE result_dict

\* if check_results and not result_dict: raise ...; return result_dict
tes_finish(check_results, result_dict) ==
    IF check_results /\ ~DictTruthy(result_dict)
    THEN Raise("ResourceUnavailableError")
    ELSE Return(result_dict)

TesIdle ==
    /\ tes_pc = "idle"
    /\ tes_uris = <<>>
    /\ tes_check = TRUE
    /\ tes_env = [u \in TesEndpoints |-> [connect |-> "ok", request |-> "empty"]]
    /\ tes_i = 1
    /\ tes_result = EmptyDict
    /\ tes_outcome = NotEnded
    /\ tes_log = <<>>

\* a caller invokes fetch_tes_task_info(tes_uris, resource_requirements,
\* check_results); the endpoints behave as tes_env says for the whole call
TesCall ==
    /\ tes_pc = "idle"
    /\ tes_uris' \in ListsOver(TesEndpoints, MaxTesUris)
    /\ tes_check' \in BOOLEAN
    /\ tes_env' \in [TesEndpoints -> TesBehaviours]
    /\ tes_i' = 1
    /\ tes_result' = EmptyDict
    /\ tes_log' = <<>>
    /\ tes_pc' = "loop"
    /\ UNCHANGED <<tes_outcome, modeVars, valVars, drsVars, ctorVars>>

\* one iteration of `for uri in tes_uris`
TesPoll ==
    /\ tes_pc = "loop"
    /\ tes_i <= Len(tes_uris)
    /\ LET uri == tes_uris[tes_i]
           task_info == _fetch_tes_task_info(uri, tes_env)
       IN  IF task_info.exc # "none"
           THEN /\ tes_outcome' = Raise(task_info.exc)
                /\ tes_pc' = "done"
                /\ UNCHANGED <<tes_i, tes_result>>
           ELSE /\ tes_result' = tes_add(tes_result, uri, task_info.value)
                /\ tes_i' = tes_i + 1
                /\ UNCHANGED <<tes_pc, tes_outcome>>
    /\ tes_log' = tes_log \o tes_contacts(tes_uris[tes_i], tes_env, tes_i)
    /\ UNCHANGED <<tes_uris, tes_check, tes_env, modeVars, valVars, drsVars, ctorVars>>

\* the loop is exhausted: the check of the result, and the return
TesFinish ==
    /\ tes_pc = "loop"
    /\ tes_i > Len(tes_uris)
    /\ tes_outcome' = tes_finish(tes_check, tes_result)
    /\ tes_pc' = "done"
    /\ UNCHANGED <<tes_uris, tes_check, tes_env, tes_i, tes_result, tes_log>>
    /\ UNCHANGED <<modeVars, valVars, drsVars, ctorVars>>

TesNext == TesCall \/ TesPoll \/ TesFinish

----------------------------------------------------------------------------
(* fetch_drs_objects_metadata *)

DrsEndpoints == {"drsA", "drsB"}

Objects == {"o1", "o2"}

\* an endpoint's behaviour: what drs_client.Client(uri) does and, once
\* connected, which objects client.getObject(id) finds (has) and what it
\* raises for the others (miss)
DrsBehaviours ==
    {[connect |-> k, has |-> {}, miss |-> "HTTPNotFound"] : k \in ExcKinds}
    \cup {[connect |-> "ok", has |-> H, miss |-> m] :
            H \in (SUBSET Objects) \ {Objects}, m \in ExcKinds}
    \cup {[connect |-> "ok", has |-> Objects, miss |-> "HTTPNotFound"]}

\* the metadata record an endpoint reports for an object, ._as_dict()
ObjectOf(uri, id) == <<"DrsObject", id, uri>>

\* client.getObject(drs_id)._as_dict()
getObject(uri, id, env) ==
    IF id \in env[uri].has THEN Return(ObjectOf(uri, id)) ELSE Raise(env[uri].miss)

\* `for drs_id in ids` of _fetch_drs_objects_metadata, from the k-th id on:
\* HTTPNotFound and TimeoutError skip the id, anything else leaves the function
RECURSIVE fetch_objects_loop(_, _, _, _, _)
fetch_objects_loop(uri, ids, env, k, objects_metadata) ==
    IF k > Len(ids) THEN Return(objects_metadata)
    ELSE LET got == getObject(uri, ids[k], env)
         IN  IF got.exc = "none"
             THEN fetch_objects_loop(uri, ids, env, k + 1,
                                     DictSet(objects_metadata, ids[k], got.value))
             ELSE IF got.exc \in {"HTTPNotFound", "TimeoutError"}
             THEN fetch_objects_loop(uri, ids, env, k + 1, objects_metadata)
             ELSE Raise(got.exc)

\* _fetch_drs_objects_metadata(uri, *ids, timeout)
_fetch_drs_objects_metadata(uri, ids, env) ==
    LET b == env[uri]
    IN  IF b.connect = "TimeoutError" THEN Return(EmptyDict)
        ELSE IF b.connect \in {"ConnectionError", "HTTPError", "HTTPNotFound",
                               "JSONDecodeError", "MissingSchema"}
        THEN Return(EmptyDict)
        ELSE IF b.connect # "ok" THEN Raise(b.connect)
        ELSE fetch_objects_loop(uri, ids, env, 1, EmptyDict)

\* the call _fetch_drs_objects_metadata(uri=drs_uri, *drs_ids, timeout=timeout):
\* the unpacked positional arguments are bound first, to the parameters in
\* order, so the first of drs_ids takes `uri` and the keyword uri= then names a
\* parameter that already has a value: TypeError.  With no positional
\* argument, uri is drs_uri and ids is empty.
call_fetch_at(drs_uri, ids, env) ==
    IF Len(ids) > 0 THEN Raise("TypeError")
    ELSE _fetch_drs_objects_metadata(drs_uri, <<>>, env)

\* the requests `for drs_id in ids` of _fetch_drs_objects_metadata sends for
\* the entry-th list entry, from the k-th id on: one getObject per id, until
\* one raises something the loop does not catch
RECURSIVE fetch_objects_contacts(_, _, _, _, _)
fetch_objects_contacts(uri, ids, env, entry, k) ==
    IF k > Len(ids) THEN <<>>
    ELSE <<Contact("getObject", entry, ids[k])>>
         \o (IF getObject(uri, ids[k], env).exc \in {"none", "HTTPNotFound", "TimeoutError"}
             THEN fetch_objects_contacts(uri, ids, env, entry, k + 1)
             ELSE <<>>)

\* the requests _fetch_drs_objects_metadata(uri, *ids) sends:
\* drs_client.Client(uri), then the loop over ids unless Client raised
drs_contacts(uri, ids, env, entry) ==
    <<Contact("Client", entry, "")>>
    \o (IF env[uri].connect = "ok"
        THEN fetch_objects_contacts(uri, ids, env, entry, 1) ELSE <<>>)

\* the requests the call at lines 59-63 sends: none when the call itself
\* raises TypeError, before the function body runs
call_fetch_contacts(drs_uri, ids, env, entry) ==
    IF Len(ids) > 0 THEN <<>>
    ELSE drs_contacts(drs_uri, <<>>, env, entry)

\* `for drs_id in metadata: result_dict[drs_id].update({drs_uri: metadata[drs_id]})`
\* from the k-th key of metadata on; result_dict is a defaultdict(dict)
RECURSIVE merge_metadata(_, _, _, _)
merge_metadata(result_dict, drs_uri, metadata, k) ==
    IF k > Len(metadata) THEN result_dict
    ELSE LET drs_id == metadata[k][1]
             inner  == IF DictHas(result_dict, drs_id)
                       THEN DictGet(result_dict, drs_id) ELSE EmptyDict
         IN  merge_metadata(
                 DictSet(result_dict, drs_id, DictSet(inner, drs_uri, metadata[k][2])),
                 drs_uri, metadata, k + 1)

\* the ids of drs_ids that are no key of result_dict, in the order of drs_ids
MissingIds(ids, result_dict) ==
    SelectSeq(ids, LAMBDA id : ~DictHas(result_dict, id))

\* the body of `if check_results:` : the first id not in result_dict raises
check_availability(check_results, ids, result_dict) ==
    IF check_results /\ MissingIds(ids, result_dict) # <<>>
    THEN [exc |-> "ResourceUnavailableError", value |-> EmptyDict,
          object |-> Head(MissingIds(ids, result_dict))]
    ELSE [exc |-> "none", value |-> EmptyDict, object |-> ""]

DrsReturn(value) == [exc |-> "none", value |-> value, object |-> ""]
DrsRaise(kind)   == [exc |-> kind, value |-> EmptyDict, object |-> ""]
DrsNotEnded      == [exc |-> "pending", value |-> EmptyDict, object |-> ""]

\* the loop index taken over from whatever iterated before
loop_resume(i) == i

\* `for drs_uri in drs_uris:` begins at the first entry of the list
loop_start(i) == 1

\* result_dict = defaultdict(dict): a new, empty mapping in every call
new_result_dict(previous) == EmptyDict

DrsIdle ==
    /\ drs_pc = "idle"
    /\ drs_uris = <<>>
    /\ drs_ids = <<>>
    /\ drs_check = TRUE
    /\ drs_env = [u \in DrsEndpoints |->
                    [connect |-> "ok", has |-> Objects, miss |-> "HTTPNotFound"]]
    /\ drs_i = 1
    /\ drs_result = EmptyDict
    /\ drs_outcome = DrsNotEnded
    /\ drs_first = DrsNotEnded
    /\ drs_log = <<>>

\* a caller invokes fetch_drs_objects_metadata(drs_uris, drs_ids,
\* check_results=...); the endpoints behave as drs_env says for the whole call
DrsCall ==
    /\ drs_pc = "idle"
    /\ drs_uris' \in ListsOver(DrsEndpoints, MaxDrsUris)
    /\ drs_ids' \in ListsOver(Objects, MaxDrsIds)
    /\ drs_check' \in BOOLEAN
    /\ drs_env' \in [DrsEndpoints -> DrsBehaviours]
    /\ drs_i' = loop_start(drs_i)
    /\ drs_result' = new_result_dict(drs_result)
    /\ drs_log' = <<>>
    /\ drs_pc' = "loop"
    /\ UNCHANGED <<drs_outcome, drs_first, modeVars, valVars, tesVars, ctorVars>>

\* the caller invokes fetch_drs_objects_metadata once more, after the first
\* call ended, with the same arguments and the endpoints behaving as before
DrsCallAgain ==
    /\ drs_pc = "done"
    /\ drs_first = DrsNotEnded
    /\ drs_first' = drs_outcome
    /\ drs_outcome' = DrsNotEnded
    /\ drs_i' = loop_start(drs_i)
    /\ drs_result' = new_result_dict(drs_result)
    /\ drs_log' = <<>>
    /\ drs_pc' = "loop"
    /\ UNCHANGED <<drs_uris, drs_ids, drs_check, drs_env, modeVars, valVars, tesVars, ctorVars>>

\* one iteration of `for drs_uri in drs_uris`: the per-endpoint call, the merge
\* into result_dict, and the availability check, which sits inside the loop
DrsPoll ==
    /\ drs_pc = "loop"
    /\ drs_i <= Len(drs_uris)
    /\ LET drs_uri  == drs_uris[drs_i]
           metadata == call_fetch_at(drs_uri, drs_ids, drs_env)
           merged   == IF DictTruthy(metadata.value)
                       THEN merge_metadata(drs_result, drs_uri, metadata.value, 1)
                       ELSE drs_result
           checked  == check_availability(drs_check, drs_ids, merged)
       IN  IF metadata.exc # "none"
           THEN /\ drs_outcome' = DrsRaise(metadata.exc)
                /\ drs_pc' = "done"
                /\ UNCHANGED <<drs_i, drs_result>>
           ELSE IF checked.exc # "none"
           THEN /\ drs_outcome' = checked
                /\ drs_result' = merged
                /\ drs_pc' = "done"
                /\ UNCHANGED drs_i
           ELSE /\ drs_result' = merged
                /\ drs_i' = drs_i + 1
                /\ UNCHANGED <<drs_pc, drs_outcome>>
    /\ drs_log' = drs_log \o call_fetch_contacts(drs_uris[drs_i], drs_ids, drs_env, drs_i)
    /\ UNCHANGED <<drs_uris, drs_ids, drs_check, drs_env, drs_first>>
    /\ UNCHANGED <<modeVars, valVars, tesVars, ctorVars>>

\* the loop is exhausted: return result_dict
DrsFinish ==
    /\ drs_pc = "loop"
    /\ drs_i > Len(drs_uris)
    /\ drs_outcome' = DrsReturn(drs_result)
    /\ drs_pc' = "done"
    /\ UNCHANGED <<drs_uris, drs_ids, drs_check, drs_env, drs_i, drs_result, drs_first,
                   drs_log>>
    /\ UNCHANGED <<modeVars, valVars, tesVars, ctorVars>>

DrsNext == DrsCall \/ DrsPoll \/ DrsFinish

----------------------------------------------------------------------------
(* Specifications *)

ModeIdle ==
    /\ mode_arg = None
    /\ mode_ret = None

ValidateIdle ==
    /\ request = Request(None, None, None, None, None)
    /\ request_in = request
    /\ defaults = None
    /\ v_pc = "done"
    /\ v_outcome = Returned

\* sanitize_mode applied to every argument of ModeArgs
InitMode == ModeInit /\ ValidateIdle /\ TesIdle /\ DrsIdle /\ CtorIdle

NextMode == CallSanitizeMode

SpecMode == InitMode /\ [][NextMode]_vars

\* validate applied to every request of Requests with every defaults of DefaultsArgs
InitValidate == ModeIdle /\ ValidateInit /\ TesIdle /\ DrsIdle /\ CtorIdle

NextValidate == Validate

SpecValidate == InitValidate /\ [][NextValidate]_vars

InitIdle == ModeIdle /\ ValidateIdle /\ TesIdle /\ DrsIdle /\ CtorIdle

\* one call of fetch_tes_task_info
SpecTes == InitIdle /\ [][TesNext]_vars

\* one call of fetch_drs_objects_metadata
SpecDrs == InitIdle /\ [][DrsNext]_vars

DrsTwiceNext == DrsCall \/ DrsPoll \/ DrsFinish \/ DrsCallAgain

\* two consecutive calls of fetch_drs_objects_metadata with the same arguments
SpecDrsTwice == InitIdle /\ [][DrsTwiceNext]_vars

\* one call of either client: the program is single-threaded, so a call of
\* one client runs only while the other is not in use
FetchNext ==
    \/ drs_pc = "idle" /\ TesCall
    \/ drs_pc = "idle" /\ TesPoll
    \/ drs_pc = "idle" /\ TesFinish
    \/ tes_pc = "idle" /\ DrsCall
    \/ tes_pc = "idle" /\ DrsPoll
    \/ tes_pc = "idle" /\ DrsFinish

SpecFetch == InitIdle /\ [][FetchNext]_vars

\* every constructor call of CtorCalls
InitCtor == ModeIdle /\ ValidateIdle /\ TesIdle /\ DrsIdle /\ CtorInit

NextCtor == Construct

SpecCtor == InitCtor /\ [][NextCtor]_vars

----------------------------------------------------------------------------
(* Vocabulary of the properties *)

Range(q) == {q[k] : k \in DOMAIN q}

\* the per-endpoint failures the design calls transient: connection timeout,
\* connection refused or failed, malformed response, unresolvable URI, not found
TransientKinds ==
    {"TimeoutError", "ConnectionError", "JSONDecodeError", "MissingSchema",
     "HTTPNotFound"}

\* the mode values the request contract accepts
RecognisedMode(m) ==
    \/ m.type = "Mode"
    \/ m.type = "str" /\ m.s \in {"cost", "time", "random"}
    \/ m.type = "int" /\ m.val \in {-1, 0, 1}
    \/ m.type = "float" /\ ~m.nan /\ 0 <= m.val /\ m.val <= FloatScale

\* a field holds a non-empty sequence, bare or wrapped in its record
HoldsItems(f)  == f.type # "NoneType" /\ Len(f.items) > 0

\* the result of fetch_drs_objects_metadata holds an entry for id at uri
HasEntry(d, id, uri) == DictHas(d, id) /\ DictHas(DictGet(d, id), uri)

\* the endpoint uri is reachable and reports id
Reports(env, uri, id) == env[uri].connect = "ok" /\ id \in env[uri].has

----------------------------------------------------------------------------
(* C4 *)

\* every endpoint of the list fails to connect, times out on the request, or
\* answers with an empty or a non-empty record
C4_Outcomes ==
    \A u \in Range(tes_uris) :
        \/ tes_env[u].connect \in TransientKinds
        \/ tes_env[u].connect = "ok"
           /\ tes_env[u].request \in {"TimeoutError", "empty", "record"}

\* the URIs of the list whose endpoint returned a non-empty record
C4_S == {u \in Range(tes_uris) :
            tes_env[u].connect = "ok" /\ tes_env[u].request = "record"}

\* C4: fetch_tes_task_info raises ResourceUnavailableError when check_results
\* is true and no listed endpoint returned a non-empty record; in every other
\* case it returns a mapping whose keys are exactly the URIs whose endpoint
\* returned a non-empty record, each mapped to that record.
C4_TesAggregation ==
    (tes_pc = "done" /\ C4_Outcomes) =>
        IF tes_check /\ C4_S = {}
        THEN tes_outcome.exc = "ResourceUnavailableError"
        ELSE /\ tes_outcome.exc = "none"
             /\ DictKeys(tes_outcome.value) = C4_S
             /\ \A u \in C4_S : DictGet(tes_outcome.value, u) = TaskInfoOf(u)

\* three entries, exactly one endpoint with a record, another one that fails
C4_Witness ==
    /\ tes_pc = "done"
    /\ C4_Outcomes
    /\ Len(tes_uris) = 3
    /\ Cardinality(C4_S) = 1
    /\ \E u \in Range(tes_uris) : tes_env[u].connect = "ConnectionError"
    /\ tes_outcome.exc = "none"
    /\ Len(tes_outcome.value) = 1

----------------------------------------------------------------------------
(* C8 *)

\* C8: sanitize_mode agrees with the reference table: Mode.cost, "cost" and 0
\* give 0.0; Mode.time, "time" and 1 give 1.0; Mode.random, "random" and -1
\* give -1.0; a float in [0, 1], bounds included, is returned unchanged.
C8_ModeTable ==
    mode_ret # Pending =>
        /\ mode_arg \in {ModeMember("cost"), PyStr("cost"), PyInt(0)}
              => mode_ret = PyFloat(0)
        /\ mode_arg \in {ModeMember("time"), PyStr("time"), PyInt(1)}
              => mode_ret = PyFloat(FloatScale)
        /\ mode_arg \in {ModeMember("random"), PyStr("random"), PyInt(-1)}
              => mode_ret = PyFloat(-FloatScale)
        /\ (mode_arg.type = "float" /\ ~mode_arg.nan
                /\ 0 <= mode_arg.val /\ mode_arg.val <= FloatScale)
              => mode_ret = mode_arg

\* the upper bound 1.0 has been normalised, to itself
C8_Witness ==
    /\ mode_arg = PyFloat(FloatScale)
    /\ mode_ret = PyFloat(FloatScale)

----------------------------------------------------------------------------
(* C9 *)

\* C9: for every argument that is not a Mode member, not "cost"/"time"/"random",
\* not one of the integers -1/0/1 and not a float in [0, 1], sanitize_mode
\* returns None.
C9_RejectsEverythingElse ==
    (mode_ret # Pending /\ ~RecognisedMode(mode_arg)) => mode_ret = None

----------------------------------------------------------------------------
(* C1, C2, C3: fetch_drs_objects_metadata *)

\* every endpoint is unreachable, or reachable and answering "not found" for
\* the objects it does not report
DrsPlainEndpoints ==
    \A u \in DrsEndpoints :
        /\ drs_env[u].connect \in {"ok"} \cup TransientKinds
        /\ drs_env[u].miss = "HTTPNotFound"

\* the mapping holds exactly the entries of the requested objects at the
\* listed endpoints that report them, each with the endpoint's record, and no
\* object maps to an empty inner mapping
ExactlyReported(d) ==
    /\ \A id \in Objects, u \in DrsEndpoints :
          HasEntry(d, id, u) <=>
              (id \in Range(drs_ids) /\ u \in Range(drs_uris) /\ Reports(drs_env, u, id))
    /\ \A id \in Objects, u \in DrsEndpoints :
          HasEntry(d, id, u) => DictGet(DictGet(d, id), u) = ObjectOf(u, id)
    /\ \A k \in DOMAIN d : d[k][2] # EmptyDict

\* C1: with check_results false, fetch_drs_objects_metadata returns normally
\* and the returned mapping contains result[id][uri] if and only if id is in
\* drs_ids, uri is in drs_uris and the endpoint uri is reachable and reports
\* id; no object identifier maps to an empty inner mapping.
C1_UncheckedFetchReturnsReported ==
    (drs_pc = "done" /\ ~drs_check /\ DrsPlainEndpoints) =>
        /\ drs_outcome.exc = "none"
        /\ ExactlyReported(drs_outcome.value)

\* some requested identifier is reported by none of the listed endpoints
SomeIdUnreported ==
    \E id \in Range(drs_ids) :
        \A u \in Range(drs_uris) : ~Reports(drs_env, u, id)

\* C2: with check_results true, fetch_drs_objects_metadata raises
\* ResourceUnavailableError if and only if, after all endpoints have been
\* tried, some identifier of drs_ids is reported by none of them (an empty
\* drs_uris with a non-empty drs_ids included); otherwise it returns the
\* merged mapping without error.
C2_CheckedFetchRaisesIffUnreported ==
    (drs_pc = "done" /\ drs_check /\ DrsPlainEndpoints) =>
        IF SomeIdUnreported
        THEN drs_outcome.exc = "ResourceUnavailableError"
        ELSE /\ drs_outcome.exc = "none"
             /\ ExactlyReported(drs_outcome.value)

\* C3: with check_results true, if endpoint A cannot be connected to and
\* endpoint B reports every requested object, then for either order of A and
\* B in drs_uris the call raises no error and the returned mapping contains
\* B's record for each requested object and no entry for A.
C3_UnreachableEndpointNotFatal ==
    \A a, b \in DrsEndpoints :
        (/\ drs_pc = "done" /\ drs_check
         /\ a # b
         /\ drs_uris \in {<<a, b>>, <<b, a>>}
         /\ drs_env[a].connect \in TransientKinds
         /\ \A id \in Range(drs_ids) : Reports(drs_env, b, id))
        => /\ drs_outcome.exc = "none"
           /\ \A id \in Range(drs_ids) :
                 /\ HasEntry(drs_outcome.value, id, b)
                 /\ DictGet(DictGet(drs_outcome.value, id), b) = ObjectOf(b, id)
                 /\ ~HasEntry(drs_outcome.value, id, a)

----------------------------------------------------------------------------
(* C10: both clients *)

\* every failure of a DRS endpoint is a transient one
DrsTransientOnly ==
    \A u \in DrsEndpoints :
        /\ drs_env[u].connect \in {"ok"} \cup TransientKinds
        /\ drs_env[u].miss \in TransientKinds

\* every failure of a TES endpoint is a transient one
TesTransientOnly ==
    \A u \in TesEndpoints :
        /\ tes_env[u].connect \in {"ok"} \cup TransientKinds
        /\ tes_env[u].request \in {"record", "empty"} \cup TransientKinds

\* C10: with check_results false, a transient failure of one endpoint, while
\* connecting or while performing the per-object or the task-info request,
\* never propagates to the caller of fetch_drs_objects_metadata or
\* fetch_tes_task_info; the affected endpoint or object is left out of the
\* result and every other endpoint of the list is still polled and its data
\* returned.
C10_TransientFailuresContained ==
    /\ (drs_pc = "done" /\ ~drs_check /\ DrsTransientOnly) =>
          /\ drs_outcome.exc = "none"
          /\ ExactlyReported(drs_outcome.value)
    /\ (tes_pc = "done" /\ ~tes_check /\ TesTransientOnly) =>
          /\ tes_outcome.exc = "none"
          /\ DictKeys(tes_outcome.value) = C4_S

----------------------------------------------------------------------------
(* C5, C6, C7: Request.validate *)

\* the request is well formed: some TES instance, no object or some DRS
\* instance, and a mode the contract accepts
WellFormed(r) ==
    /\ HoldsItems(r.tes_uris)
    /\ ~HoldsItems(r.drs_ids) \/ HoldsItems(r.drs_uris)
    /\ RecognisedMode(r.mode)

\* C5: for every Request whose tes_uris is non-empty, whose drs_ids is empty
\* (or whose drs_ids and drs_uris are both non-empty) and whose mode is one of
\* the accepted values, validate completes without raising any error.
C5_ValidateAcceptsWellFormed ==
    (v_pc = "done" /\ WellFormed(request_in)) => v_outcome = Returned

\* C6: when a defaults mapping is supplied, each of the five fields that is
\* undefined on the request and has a key in the mapping holds the mapping's
\* value once validate has checked the invariants; an undefined field with no
\* default stays undefined.
C6_ValidateAppliesDefaults ==
    (v_pc = "done" /\ defaults # None) =>
        \A name \in FieldNames :
            request_in[name] = None =>
                IF name \in DOMAIN defaults.map
                THEN request[name] = defaults.map[name]
                ELSE request[name] = None

\* C7: for a request whose mode is valid, validate raises ValidationError
\* "No services for accesing input objects defined." if drs_ids is non-empty
\* and drs_uris is empty or undefined; otherwise it raises ValidationError
\* "No TES instance has been specified." if tes_uris is empty or undefined;
\* bare sequences and records wrapping an empty items sequence alike.
C7_ValidateReportsFirstViolation ==
    (v_pc = "done" /\ RecognisedMode(request.mode)) =>
        IF HoldsItems(request.drs_ids) /\ ~HoldsItems(request.drs_uris)
        THEN v_outcome = [exc |-> "ValidationError",
                          message |-> "No services for accesing input objects defined."]
        ELSE ~HoldsItems(request.tes_uris) =>
                v_outcome = [exc |-> "ValidationError",
                             message |-> "No TES instance has been specified."]

----------------------------------------------------------------------------
(* C11 *)

----------------------------------------------------------------------------
(* C12 *)

\* the fields the data model lists for a record
ListedFields ==
    [Checksum |-> {"checksum", "type"},
     ServiceCombination |-> {"access_uris", "cost_estimate", "time_estimate", "rank"},
     Response |-> {"service_combinations", "warnings"}]

\* reading obj.name: the value, or AttributeError when the instance has no
\* such attribute
getattr(obj, name) ==
    IF DictHas(obj.dict, name)
    THEN [exc |-> "none", value |-> DictGet(obj.dict, name)]
    ELSE [exc |-> "AttributeError", value |-> None]

\* C12: after a ServiceCombination, a Response or a Checksum is constructed
\* from arguments, reading each field the data model lists for it yields
\* exactly the value supplied for that argument, in the declared shape
\* (Checksum.checksum is the string itself, not a sequence holding it).
C12_ConstructorsPopulateFields ==
    ctor_pc = "built" =>
        \A name \in ListedFields[ctor_call.class] :
            getattr(ctor_obj, name) =
                [exc |-> "none", value |-> DictGet(ctor_call.args, name)]

----------------------------------------------------------------------------
(* C13 *)

\* the list entries whose endpoint accepts the connection
TesConnected == {k \in DOMAIN tes_uris : tes_env[tes_uris[k]].connect = "ok"}
DrsConnected == {k \in DOMAIN drs_uris : drs_env[drs_uris[k]].connect = "ok"}

\* the requests of log that follow the connection attempt of an entry
RequestsOf(log, entry) ==
    {j \in DOMAIN log : log[j].entry = entry /\ log[j].op # "Client"}

\* log polls the n list entries one after the other, each once: the
\* connection attempts are those of the entries 1..n in this order; the
\* requests of an entry follow its own connection attempt, which succeeded,
\* and precede everything of a later entry; an entry has at most maxreq
\* requests; an entry whose connection failed is not contacted again
SinglePass(log, n, connected, maxreq) ==
    LET attempts == SelectSeq(log, LAMBDA e : e.op = "Client")
    IN  /\ Len(attempts) = n
        /\ \A k \in 1..n : attempts[k].entry = k
        /\ \A j, j2 \in DOMAIN log : j < j2 => log[j].entry <= log[j2].entry
        /\ \A j \in DOMAIN log :
                log[j].op # "Client" =>
                    /\ log[j].entry \in connected
                    /\ \E j0 \in 1..(j - 1) :
                            log[j0].op = "Client" /\ log[j0].entry = log[j].entry
        /\ \A k \in 1..n : Cardinality(RequestsOf(log, k)) <= maxreq
        /\ \A k \in (1..n) \ connected :
                Cardinality({j \in DOMAIN log : log[j].entry = k}) = 1

\* the position at which uris is first iterated over u
FirstIndex(uris, u) ==
    CHOOSE k \in DOMAIN uris : uris[k] = u /\ \A k2 \in 1..(k - 1) : uris[k2] # u

\* the keys of the mapping d appear in the order in which uris lists them
InIterationOrder(d, uris) ==
    /\ DictKeys(d) \subseteq Range(uris)
    /\ \A p, q \in DOMAIN d :
            p < q => FirstIndex(uris, d[p][1]) < FirstIndex(uris, d[q][1])

\* C13: in one call of fetch_tes_task_info, and likewise of
\* fetch_drs_objects_metadata, the endpoints are contacted in the order of the
\* URI list; every list entry receives exactly one connection attempt; a
\* task-info request (a metadata request, at most one per requested id) goes to
\* an entry only after its own connection attempt succeeded; no entry is
\* contacted again after it failed; and the entries of the returned mapping
\* are in the order in which their endpoints were iterated.
C13_SequentialSingleAttempt ==
    /\ tes_pc = "done" =>
            /\ SinglePass(tes_log, Len(tes_uris), TesConnected, 1)
            /\ tes_outcome.exc = "none" =>
                    InIterationOrder(tes_outcome.value, tes_uris)
    /\ drs_pc = "done" =>
            /\ SinglePass(drs_log, Len(drs_uris), DrsConnected, Len(drs_ids))
            /\ drs_outcome.exc = "none" =>
                    \A k \in DOMAIN drs_outcome.value :
                        InIterationOrder(drs_outcome.value[k][2], drs_uris)

----------------------------------------------------------------------------
(* C14 *)

\* the fields of a Request that C14 is about
SuppliedFields == {"resource_requirements", "tes_uris", "drs_ids", "drs_uris"}

\* C14: Request.validate never overwrites a caller-supplied value: each of
\* resource_requirements, tes_uris, drs_ids and drs_uris that was defined
\* before the call holds the identical value after it, whether validate
\* returns or raises, with or without a defaults mapping, and even when the
\* mapping holds a different value for the field.
C14_ValidateKeepsSuppliedValues ==
    v_pc = "done" =>
        \A name \in SuppliedFields :
            request_in[name] # None => request[name] = request_in[name]

\* validate has ended on a request whose tes_uris was supplied, with a
\* defaults mapping that holds another value for tes_uris
C14_Witness ==
    /\ v_pc = "done"
    /\ defaults.type = "dict"
    /\ "tes_uris" \in DOMAIN defaults.map
    /\ request_in.tes_uris = TesUris(<<"tesA">>)
    /\ defaults.map.tes_uris # request_in.tes_uris
    /\ request.tes_uris = TesUris(<<"tesA">>)

====
